---- MODULE Spec2Model ----
(***************************************************************************)
(* ID3C identifier minting, identifier sets, de-identification hashing and *)
(* the CLI database-session wrapper.                                       *)
(*                                                                         *)
(*   SpecMint     the identifier store, make_identifier_set and concurrent *)
(*                mint_identifiers calls of the web API                    *)
(*   SpecLoop     mint_identifiers calls of one session against a store    *)
(*                that already holds identifiers, on a database that may   *)
(*                deny the session the insert                              *)
(*   SpecGenHash  generate_hash called on its own                          *)
(*   SpecDeid     the de-identify command                                  *)
(*   SpecSession  with_database_session                                    *)
(***************************************************************************)
EXTENDS Integers, Sequences, FiniteSets, TLC

VARIABLES
    \* ---- the warehouse tables
    identifier_set,     \* warehouse.identifier_set: name -> row or NoRow
    identifier,         \* warehouse.identifier: row -> number of copies held
    \* ---- API callers (one session each)
    pc,                 \* caller -> "idle" | "minting" | "done"
    op,                 \* caller -> "none" | "mint" | "make"
    name,               \* caller -> set name of the call in progress
    n,                  \* caller -> number of identifiers requested
    minted,             \* caller -> identifiers minted so far by this call
    failures,           \* caller -> consecutive collisions
    outcome,            \* caller -> what the API call delivered
    \* ---- observation only (never read by an operation)
    attempts,           \* caller -> insert attempts made by this call
    inserted,           \* caller -> values this call added to warehouse.identifier
    before,             \* caller -> warehouse.identifier when the call began
    setsBefore,         \* caller -> warehouse.identifier_set when the call began
    returned,           \* value -> times returned by a successful mint call
    calls,              \* API calls made so far
    run,                \* caller -> collisions seen since the call's last insert
    refused,            \* caller -> the database denied a statement of the call
    \* ---- generate_hash called on its own
    environ,            \* os.environ["ID3C_DEIDENTIFY_SECRET"]: <<>> unset, <<s>> set
    hashArgs,           \* the arguments of the call
    hashResult,         \* what the call returned or raised
    \* ---- the de-identify command
    dpc,                \* "start" | "loaded" | "hashing" | "hashed" | "done" | "failed"
    filename,           \* the <filename> argument
    input_df,           \* the rows of the input file
    columns,            \* the <columns> argument
    drop_input_columns, \* the --drop-input-columns flag
    joined_fields,      \* row -> the joined string
    hashes,             \* the hash column computed so far
    output,             \* what was written to stdout
    error,              \* the exception the command ended with
    hashCalls,          \* (observation) calls of generate_hash made by the command
    \* ---- a command wrapped by with_database_session
    spc,                \* "idle" | "command" | "finally" | "done"
    action,             \* the --dry-run / --prompt / --commit option
    processed_without_error,    \* "None" | "True" | "False"
    raised,             \* the exception the command raised, "none" if it returned
    propagated,         \* the exception the caller of the wrapper received
    asked,              \* the question put to the user, "" if none was
    pending,            \* records in the database as the open transaction sees it
    durable,            \* records committed to the database
    commits,            \* db.commit() calls of this invocation
    rollbacks,          \* db.rollback() calls of this invocation
    confirmed,          \* (observation) the user answered yes
    durableBefore,      \* (observation) durable when the invocation began
    invocations         \* (observation) invocations so far

mintVars == <<identifier_set, identifier, pc, op, name, n, minted, failures,
              outcome, attempts, inserted, before, setsBefore, returned, calls,
              run, refused>>
hashVars == <<environ, hashArgs, hashResult>>
deidVars == <<dpc, filename, input_df, columns, drop_input_columns,
              joined_fields, hashes, output, error, hashCalls>>
sessVars == <<spc, action, processed_without_error, raised, propagated, asked,
              pending, durable, commits, rollbacks, confirmed, durableBefore,
              invocations>>
vars == <<mintVars, hashVars, deidVars, sessVars>>

----------------------------------------------------------------------------
(* Bounds of the model *)

MaxVal == 2             \* the generator draws candidates from 1..MaxVal
MaxN == 2               \* a mint call asks for 0..MaxN identifiers
MaxCalls == 2           \* API calls in one behaviour

(* The configured consecutive-failure bound of the minter *)
MaxFailures == 2

Names == {"s1", "s2"}
Callers == {"c1", "c2"}
Values == 1..MaxVal
\* SpecLoop asks for up to LoopN identifiers with candidates from LoopValues,
\* so that a call can collide more than MaxFailures times and still succeed.
LoopValues == 1..(MaxVal + 2)
LoopN == MaxN + 1
Rows == [set : Names, value : LoopValues]

NoRow == [present |-> FALSE, description |-> ""]
SetRow(d) == [present |-> TRUE, description |-> d]
NoMessage == [set |-> "", minted |-> 0]
NoOutcome == [kind |-> "none", value |-> <<>>, created |-> FALSE, message |-> NoMessage]

----------------------------------------------------------------------------
(* The persistent identifier store *)

\* select ... from warehouse.identifier_set where name = %s
setExists(sets, nm) == sets[nm].present

\* Number of rows of the table holding the value v
Copies(table, v) ==
    LET RECURSIVE Sum(_)
        Sum(S) == IF S = {} THEN 0
                  ELSE LET s == CHOOSE s \in S : TRUE
                       IN table[[set |-> s, value |-> v]] + Sum(S \ {s})
    IN Sum(Names)

\* Mutant of insertIdentifier: no uniqueness constraint on the value.
insertIdentifier_no_unique(sets, table, nm, c) ==
    IF ~setExists(sets, nm)
    THEN [result |-> "notfound", table |-> table]
    ELSE [result |-> "inserted",
          table |-> [table EXCEPT ![[set |-> nm, value |-> c]] = @ + 1]]

\* One atomic insert of a candidate: the row is committed or nothing is.
insertIdentifier(sets, table, nm, c) ==
    IF ~setExists(sets, nm)
    THEN [result |-> "notfound", table |-> table]
    ELSE IF Copies(table, c) > 0
    THEN [result |-> "collision", table |-> table]
    ELSE [result |-> "inserted",
          table |-> [table EXCEPT ![[set |-> nm, value |-> c]] = @ + 1]]

----------------------------------------------------------------------------
(* The API layer of the datastore *)

\* psycopg2.errors.InsufficientPrivilege, raised by a statement the database
\* answers with "permission denied"
InsufficientPrivilege ==
    [kind |-> "InsufficientPrivilege", value |-> <<>>, created |-> FALSE,
     message |-> NoMessage]

\* Mutant of catch_permission_denied: the exception is not caught.
catch_permission_denied_not_caught(r) == r

catch_permission_denied(r) ==
    IF r.kind = "InsufficientPrivilege"
    THEN [kind |-> "Forbidden", value |-> <<>>, created |-> FALSE, message |-> NoMessage]
    ELSE r

\* Mutants of mint_identifiers: the result of the call is dropped; the
\* IdentifierSetNotFoundError handler is missing; the TooManyFailuresError
\* handler is missing; ServiceUnavailable is raised without the message.
mint_identifiers_returns_none(r) ==
    catch_permission_denied(
        CASE r.kind = "IdentifierSetNotFoundError" -> [r EXCEPT !.kind = "NotFound"]
          [] r.kind = "TooManyFailuresError" -> [r EXCEPT !.kind = "ServiceUnavailable"]
          [] OTHER -> [r EXCEPT !.value = <<>>])
mint_identifiers_no_notfound(r) ==
    catch_permission_denied(
        CASE r.kind = "TooManyFailuresError" -> [r EXCEPT !.kind = "ServiceUnavailable"]
          [] OTHER -> r)
mint_identifiers_no_unavailable(r) ==
    catch_permission_denied(
        CASE r.kind = "IdentifierSetNotFoundError" -> [r EXCEPT !.kind = "NotFound"]
          [] OTHER -> r)
mint_identifiers_no_message(r) ==
    catch_permission_denied(
        CASE r.kind = "IdentifierSetNotFoundError" -> [r EXCEPT !.kind = "NotFound"]
          [] r.kind = "TooManyFailuresError" ->
                 [r EXCEPT !.kind = "ServiceUnavailable", !.message = NoMessage]
          [] OTHER -> r)

\* r is what db.mint_identifiers returned or raised
mint_identifiers(r) ==
    catch_permission_denied(
        CASE r.kind = "IdentifierSetNotFoundError" ->
                 [r EXCEPT !.kind = "NotFound"]
          [] r.kind = "TooManyFailuresError" ->
                 [r EXCEPT !.kind = "ServiceUnavailable"]
          [] OTHER -> r)

\* Mutant of make_identifier_set: on conflict the row is written again.
make_identifier_set_upsert(sets, nm) ==
    [sets |-> [sets EXCEPT ![nm] = SetRow("")], returns |-> TRUE]

\* Mutant of make_identifier_set: the table is emptied before the insert.
make_identifier_set_truncate(sets, nm) ==
    [sets |-> [s \in Names |-> IF s = nm THEN SetRow("") ELSE NoRow],
     returns |-> TRUE]

\* insert into warehouse.identifier_set (name) values (%s)
\*     on conflict (name) do nothing;  return cursor.rowcount == 1
make_identifier_set(sets, nm) ==
    LET rowcount == IF sets[nm].present THEN 0 ELSE 1
    IN [sets |-> IF rowcount = 1 THEN [sets EXCEPT ![nm] = SetRow("")] ELSE sets,
        returns |-> (rowcount = 1)]

----------------------------------------------------------------------------
(* db.mint_identifiers: the minting loop *)

Ok(values) ==
    [kind |-> "ok", value |-> values, created |-> FALSE, message |-> NoMessage]
IdentifierSetNotFoundError(nm) ==
    [kind |-> "IdentifierSetNotFoundError", value |-> <<>>, created |-> FALSE,
     message |-> [set |-> nm, minted |-> 0]]
TooManyFailuresError(nm, k) ==
    [kind |-> "TooManyFailuresError", value |-> <<>>, created |-> FALSE,
     message |-> [set |-> nm, minted |-> k]]

\* Before the loop: the set is looked up; nothing is minted for n <= 0.
MintLookup(sets, nm, want) ==
    IF ~setExists(sets, nm)
    THEN [over |-> TRUE, result |-> IdentifierSetNotFoundError(nm)]
    ELSE [over |-> want <= 0, result |-> Ok(<<>>)]

\* Mutant of MintStep: the failure counter is not reset by an insert.
MintStep_no_reset(sets, table, nm, want, got, fails, c) ==
    LET ins == insertIdentifier(sets, table, nm, c)
    IN  CASE ins.result = "notfound" ->
                [table |-> ins.table, minted |-> got, failures |-> fails,
                 over |-> TRUE, result |-> IdentifierSetNotFoundError(nm)]
          [] ins.result = "inserted" ->
                [table |-> ins.table, minted |-> Append(got, c), failures |-> fails,
                 over |-> Len(got) + 1 >= want,
                 result |-> Ok(Append(got, c))]
          [] OTHER ->
                [table |-> ins.table, minted |-> got, failures |-> fails + 1,
                 over |-> fails + 1 >= MaxFailures,
                 result |-> TooManyFailuresError(nm, Len(got))]

\* One pass of the loop for caller state (nm, want, got, fails) with
\* candidate c: the next loop state, and the result once the call is over.
MintStep(sets, table, nm, want, got, fails, c) ==
    LET ins == insertIdentifier(sets, table, nm, c)
    IN  CASE ins.result = "notfound" ->
                [table |-> ins.table, minted |-> got, failures |-> fails,
                 over |-> TRUE, result |-> IdentifierSetNotFoundError(nm)]
          [] ins.result = "inserted" ->
                [table |-> ins.table, minted |-> Append(got, c), failures |-> 0,
                 over |-> Len(got) + 1 >= want,
                 result |-> Ok(Append(got, c))]
          [] OTHER ->
                [table |-> ins.table, minted |-> got, failures |-> fails + 1,
                 over |-> fails + 1 >= MaxFailures,
                 result |-> TooManyFailuresError(nm, Len(got))]

----------------------------------------------------------------------------
(* De-identification: generate_hash *)

Secrets == {"", "abadsecret", "other"}
MaybeSecrets == {<<>>} \cup {<<x>> : x \in Secrets}
Identifiers == {"", "foo", "x", "x y", " "}

Digest(text) == [kind |-> "digest", text |-> text]
Raise(kind, text) == [kind |-> kind, text |-> text]
None == [kind |-> "None", text |-> ""]

\* hashlib.sha256 over the bytes given, as a hex digest: a different text
\* for different bytes
sha256_hexdigest(bytes) == "sha256(" \o bytes \o ")"

\* Mutants of generate_hash: the assertion on the secret is missing; the
\* secret is hashed before the identifier.
generate_hash_no_secret_check(ident, secret, env) ==
    IF secret = <<>> /\ env = <<>>
    THEN Raise("Exception", "The environment variable ID3C_DEIDENTIFY_SECRET is required.")
    ELSE LET sec == IF secret = <<>> THEN env[1] ELSE secret[1]
         IN IF ~(Len(ident) > 0)
            THEN Raise("AssertionError", "Empty *identifier* provided!")
            ELSE Digest(sha256_hexdigest(ident \o sec))
generate_hash_secret_first(ident, secret, env) ==
    IF secret = <<>> /\ env = <<>>
    THEN Raise("Exception", "The environment variable ID3C_DEIDENTIFY_SECRET is required.")
    ELSE LET sec == IF secret = <<>> THEN env[1] ELSE secret[1]
         IN IF ~(Len(ident) > 0)
            THEN Raise("AssertionError", "Empty *identifier* provided!")
            ELSE IF ~(Len(sec) > 0)
            THEN Raise("AssertionError", "Empty *secret* provided!")
            ELSE Digest(sha256_hexdigest(sec \o ident))

\* generate_hash(identifier, secret = None); secret <<>> is None
generate_hash(ident, secret, env) ==
    IF secret = <<>> /\ env = <<>>
    THEN Raise("Exception", "The environment variable ID3C_DEIDENTIFY_SECRET is required.")
    ELSE LET sec == IF secret = <<>> THEN env[1] ELSE secret[1]
         IN IF ~(Len(ident) > 0)
            THEN Raise("AssertionError", "Empty *identifier* provided!")
            ELSE IF ~(Len(sec) > 0)
            THEN Raise("AssertionError", "Empty *secret* provided!")
            ELSE Digest(sha256_hexdigest(ident \o sec))

NoArgs == [identifier |-> "", secret |-> <<>>, environ |-> <<>>, called |-> FALSE]

IdleHash ==
    /\ environ = <<>>
    /\ hashArgs = NoArgs
    /\ hashResult = None

\* os.environ["ID3C_DEIDENTIFY_SECRET"] = value, or del
SetEnviron(env) ==
    /\ environ' = env
    /\ UNCHANGED <<hashArgs, hashResult, mintVars, deidVars, sessVars>>

CallGenerateHash(ident, secret) ==
    /\ hashArgs' = [identifier |-> ident, secret |-> secret, environ |-> environ,
                    called |-> TRUE]
    /\ hashResult' = generate_hash(ident, secret, environ)
    /\ UNCHANGED <<environ, mintVars, deidVars, sessVars>>

----------------------------------------------------------------------------
(* De-identification: the de-identify command *)

NoOutput == [written |-> FALSE, columns |-> <<>>, cells |-> <<>>, hash |-> <<>>]
NoError == [kind |-> "none", names |-> {}, available |-> <<>>, text |-> ""]

MaxRows == 2            \* rows of the input file

FileColumns == <<"a", "b">>         \* the header of the input file
Cells == {"", "x", "y"}             \* the values a cell may hold
FileNames == {"<stdin>", "in.csv", "in.txt"}
ColumnLists == {<<"a">>, <<"b">>, <<"a", "b">>, <<"b", "a">>, <<"a", "a">>,
                <<"c">>, <<"a", "c">>, <<"c", "b">>}
InputFiles == UNION {[1..k -> [1..Len(FileColumns) -> Cells]] : k \in 1..MaxRows}

Range(seq) == {seq[i] : i \in 1..Len(seq)}
IndexOf(seq, c) == CHOOSE i \in 1..Len(seq) : seq[i] = c

\* str.endswith
endswith(str, suffix) ==
    /\ Len(str) >= Len(suffix)
    /\ SubSeq(str, Len(str) - Len(suffix) + 1, Len(str)) = suffix

\* load_input_from_file_or_stdin(filename): the rows, or the error raised
load_input_from_file_or_stdin(fname, rows) ==
    IF fname = "<stdin>"
    THEN [raised |-> FALSE, df |-> rows, error |-> NoError]
    ELSE IF ~(\E ext \in {".csv", ".tsv", ".xls", ".xlsx"} : endswith(fname, ext))
    THEN [raised |-> TRUE, df |-> <<>>,
          error |-> [NoError EXCEPT !.kind = "UnsupportedFileExtensionError",
                                    !.text = fname]]
    ELSE [raised |-> FALSE, df |-> rows, error |-> NoError]

\* Mutant of extract_fields_from_input: columns the input lacks are skipped.
extract_fields_from_input_skip_missing(header, rows, cols) ==
    LET kept == SelectSeq(cols, LAMBDA c : c \in Range(header))
    IN [raised |-> FALSE,
        fields |-> [r \in 1..Len(rows) |->
                       [k \in 1..Len(kept) |-> rows[r][IndexOf(header, kept[k])]]],
        error |-> NoError]

\* extract_fields_from_input(input_df, columns): input_df[list(columns)]
extract_fields_from_input(header, rows, cols) ==
    LET missing == {c \in Range(cols) : c \notin Range(header)}
    IN IF missing # {}
       THEN [raised |-> TRUE, fields |-> <<>>,
             error |-> [NoError EXCEPT !.kind = "KeyError", !.names = missing,
                                       !.available = header]]
       ELSE [raised |-> FALSE,
             fields |-> [r \in 1..Len(rows) |->
                            [k \in 1..Len(cols) |-> rows[r][IndexOf(header, cols[k])]]],
             error |-> NoError]

\* Mutant of str_join: the separator is left out.
RECURSIVE str_join_no_separator(_, _)
str_join_no_separator(sep, seq) ==
    IF Len(seq) = 0 THEN ""
    ELSE seq[1] \o str_join_no_separator(sep, Tail(seq))

\* sep.join(seq)
RECURSIVE str_join(_, _)
str_join(sep, seq) ==
    IF Len(seq) = 0 THEN ""
    ELSE IF Len(seq) = 1 THEN seq[1]
    ELSE seq[1] \o sep \o str_join(sep, Tail(seq))

\* output_df.drop(columns = list(columns)): the header left, or a KeyError
drop(header, cols) ==
    LET missing == {c \in Range(cols) : c \notin Range(header)}
    IN IF missing # {}
       THEN [raised |-> TRUE, header |-> header,
             error |-> [NoError EXCEPT !.kind = "KeyError", !.names = missing,
                                       !.available = header]]
       ELSE [raised |-> FALSE,
             header |-> SelectSeq(header, LAMBDA c : c \notin Range(cols)),
             error |-> NoError]

IdleDeid ==
    /\ dpc = "idle"
    /\ filename = "-"
    /\ input_df = <<>>
    /\ columns = <<>>
    /\ drop_input_columns = FALSE
    /\ joined_fields = <<>>
    /\ hashes = <<>>
    /\ output = NoOutput
    /\ error = NoError
    /\ hashCalls = 0

\* de_identify, line 56: the input is loaded
Load ==
    /\ dpc = "start"
    /\ LET got == load_input_from_file_or_stdin(filename, input_df)
       IN IF got.raised
          THEN dpc' = "failed" /\ error' = got.error
          ELSE dpc' = "loaded" /\ UNCHANGED error
    /\ UNCHANGED <<filename, input_df, columns, drop_input_columns, joined_fields,
                   hashes, output, hashCalls, environ, hashArgs, hashResult, mintVars, sessVars>>

\* de_identify, lines 57-58: the fields are extracted and joined row by row
Extract ==
    /\ dpc = "loaded"
    /\ LET got == extract_fields_from_input(FileColumns, input_df, columns)
       IN IF got.raised
          THEN /\ dpc' = "failed" /\ error' = got.error
               /\ UNCHANGED joined_fields
          ELSE /\ dpc' = "hashing"
               /\ joined_fields' = [r \in 1..Len(got.fields) |-> str_join(" ", got.fields[r])]
               /\ UNCHANGED error
    /\ UNCHANGED <<filename, input_df, columns, drop_input_columns, hashes, output,
                   hashCalls, environ, hashArgs, hashResult, mintVars, sessVars>>

\* de_identify, line 60: generate_hash(x) if x else None, for the next row
HashRow ==
    /\ dpc = "hashing"
    /\ Len(hashes) < Len(joined_fields)
    /\ LET x == joined_fields[Len(hashes) + 1]
           h == generate_hash(x, <<>>, environ)
       IN IF x = ""
          THEN /\ hashes' = Append(hashes, None)
               /\ UNCHANGED <<dpc, error, hashCalls>>
          ELSE /\ hashCalls' = hashCalls + 1
               /\ IF h.kind = "digest"
                  THEN hashes' = Append(hashes, h) /\ UNCHANGED <<dpc, error>>
                  ELSE /\ dpc' = "failed"
                       /\ error' = [NoError EXCEPT !.kind = h.kind, !.text = h.text]
                       /\ UNCHANGED hashes
    /\ UNCHANGED <<filename, input_df, columns, drop_input_columns, joined_fields,
                   output, environ, hashArgs, hashResult, mintVars, sessVars>>

\* de_identify, lines 62-72: the hash column is added, the input columns are
\* dropped when asked, and the table is written to stdout
WriteOutput ==
    /\ dpc = "hashing"
    /\ Len(hashes) = Len(joined_fields)
    /\ LET dropped == IF drop_input_columns
                      THEN drop(Append(FileColumns, "hash"), columns)
                      ELSE [raised |-> FALSE, header |-> Append(FileColumns, "hash"),
                            error |-> NoError]
           kept == SelectSeq(FileColumns, LAMBDA c : c \in Range(dropped.header))
       IN IF dropped.raised
          THEN dpc' = "failed" /\ error' = dropped.error /\ UNCHANGED output
          ELSE /\ dpc' = "done"
               /\ output' = [written |-> TRUE,
                             columns |-> dropped.header,
                             cells |-> [r \in 1..Len(input_df) |->
                                          [k \in 1..Len(kept) |->
                                              input_df[r][IndexOf(FileColumns, kept[k])]]],
                             hash |-> hashes]
               /\ UNCHANGED error
    /\ UNCHANGED <<filename, input_df, columns, drop_input_columns, joined_fields,
                   hashes, hashCalls, environ, hashArgs, hashResult, mintVars, sessVars>>

----------------------------------------------------------------------------
(* with_database_session *)

MaxWrites == 2          \* records one command adds to the database
MaxInvocations == 2     \* invocations in one behaviour

\* --dry-run (the default), --prompt, --commit
Actions == {"rollback", "prompt", "commit"}
Exceptions == {"Exception", "KeyboardInterrupt"}

IdleSession ==
    /\ spc = "idle"
    /\ action = "rollback"
    /\ processed_without_error = "None"
    /\ raised = "none"
    /\ propagated = "none"
    /\ asked = ""
    /\ pending = 0
    /\ durable = 0
    /\ commits = 0
    /\ rollbacks = 0
    /\ confirmed = FALSE
    /\ durableBefore = 0
    /\ invocations = 0

\* Mutant of should_commit: everything but a dry run is committed.
should_commit_unless_dry_run(act, answer) == act # "rollback"

\* the finally block: commit = click.confirm(...) under --prompt, else
\* action == "commit"
should_commit(act, answer) ==
    IF act = "prompt" THEN answer ELSE act = "commit"

ask_to_commit(processed) ==
    IF processed = "True" THEN "Commit all changes?"
    ELSE "Commit successfully processed records up to this point?"

\* decorated(*args, action, **kwargs): db = DatabaseSession()
Invoke(act) ==
    /\ spc = "idle"
    /\ invocations < MaxInvocations
    /\ invocations' = invocations + 1
    /\ spc' = "command"
    /\ action' = act
    /\ processed_without_error' = "None"
    /\ raised' = "none" /\ propagated' = "none" /\ asked' = ""
    /\ pending' = durable
    /\ commits' = 0 /\ rollbacks' = 0
    /\ confirmed' = FALSE
    /\ durableBefore' = durable
    /\ UNCHANGED <<durable, mintVars, hashVars, deidVars>>

\* command(*args, **kwargs, db = db) changes the database in its transaction
CommandWrites ==
    /\ spc = "command"
    /\ pending < durable + MaxWrites
    /\ pending' = pending + 1
    /\ UNCHANGED <<spc, action, processed_without_error, raised, propagated, asked,
                   durable, commits, rollbacks, confirmed, durableBefore, invocations,
                   mintVars, hashVars, deidVars>>

\* the command returns: the else branch
CommandReturns ==
    /\ spc = "command"
    /\ spc' = "finally"
    /\ processed_without_error' = "True"
    /\ UNCHANGED <<action, raised, propagated, asked, pending, durable, commits,
                   rollbacks, confirmed, durableBefore, invocations,
                   mintVars, hashVars, deidVars>>

\* the command raises e: except Exception catches it and raises it again; an
\* exception that is no Exception passes the handler by
CommandRaises(e) ==
    /\ spc = "command"
    /\ spc' = "finally"
    /\ raised' = e
    /\ processed_without_error' =
           IF e = "Exception" THEN "False" ELSE processed_without_error
    /\ UNCHANGED <<action, propagated, asked, pending, durable, commits,
                   rollbacks, confirmed, durableBefore, invocations,
                   mintVars, hashVars, deidVars>>

\* the finally block, with the user's answer should the question be put
Finally(answer) ==
    /\ spc = "finally"
    /\ spc' = "done"
    /\ asked' = IF action = "prompt" THEN ask_to_commit(processed_without_error) ELSE ""
    /\ confirmed' = (action = "prompt" /\ answer)
    /\ IF should_commit(action, answer)
       THEN /\ durable' = pending
            /\ commits' = commits + 1
            /\ UNCHANGED <<pending, rollbacks>>
       ELSE /\ pending' = durable
            /\ rollbacks' = rollbacks + 1
            /\ UNCHANGED <<durable, commits>>
    /\ propagated' = raised
    /\ UNCHANGED <<action, processed_without_error, raised, durableBefore, invocations,
                   mintVars, hashVars, deidVars>>

\* the process of the command ends
Exit ==
    /\ spc = "done"
    /\ spc' = "idle"
    /\ UNCHANGED <<action, processed_without_error, raised, propagated, asked, pending,
                   durable, commits, rollbacks, confirmed, durableBefore, invocations,
                   mintVars, hashVars, deidVars>>

----------------------------------------------------------------------------
(* Actions of the identifier API *)

CountReturned(r) ==
    [v \in LoopValues |->
        returned[v] + IF r.kind = "ok"
                      THEN Cardinality({i \in 1..Len(r.value) : r.value[i] = v})
                      ELSE 0]

\* The call of caller p ends and r is delivered to the caller.
Deliver(p, r) ==
    /\ pc' = [pc EXCEPT ![p] = "done"]
    /\ outcome' = [outcome EXCEPT ![p] = r]
    /\ returned' = CountReturned(r)

Begin(p, what, nm, want) ==
    /\ pc[p] = "idle"
    /\ calls < MaxCalls
    /\ calls' = calls + 1
    /\ op' = [op EXCEPT ![p] = what]
    /\ name' = [name EXCEPT ![p] = nm]
    /\ n' = [n EXCEPT ![p] = want]
    /\ before' = [before EXCEPT ![p] = identifier]
    /\ setsBefore' = [setsBefore EXCEPT ![p] = identifier_set]

\* POST identifier set: make_identifier_set(session, name)
MakeSet(p, nm, denied) ==
    /\ Begin(p, "make", nm, 0)
    /\ LET made == make_identifier_set(identifier_set, nm)
       IN IF denied
          THEN /\ Deliver(p, catch_permission_denied(InsufficientPrivilege))
               /\ UNCHANGED identifier_set
          ELSE /\ Deliver(p, catch_permission_denied(
                       [Ok(<<>>) EXCEPT !.created = made.returns]))
               /\ identifier_set' = made.sets
    /\ refused' = [refused EXCEPT ![p] = denied]
    /\ UNCHANGED <<identifier, minted, failures, attempts, inserted, run,
                   hashVars, deidVars, sessVars>>

\* mint_identifiers(session, name, n): the call begins by looking the set up.
MintCall(p, nm, want) ==
    /\ Begin(p, "mint", nm, want)
    /\ LET s == MintLookup(identifier_set, nm, want)
       IN IF s.over
          THEN Deliver(p, mint_identifiers(s.result))
          ELSE /\ pc' = [pc EXCEPT ![p] = "minting"]
               /\ UNCHANGED <<outcome, returned>>
    /\ UNCHANGED <<identifier_set, identifier, minted, failures, attempts, inserted,
                   run, refused, hashVars, deidVars, sessVars>>

\* One pass of the minting loop: a fresh candidate and one atomic insert.
MintAttempt(p, c) ==
    /\ pc[p] = "minting"
    /\ LET s == MintStep(identifier_set, identifier, name[p], n[p],
                         minted[p], failures[p], c)
       IN /\ identifier' = s.table
          /\ minted' = [minted EXCEPT ![p] = s.minted]
          /\ failures' = [failures EXCEPT ![p] = s.failures]
          /\ attempts' = [attempts EXCEPT ![p] = @ + 1]
          /\ inserted' = [inserted EXCEPT ![p] =
                              @ \cup {v \in LoopValues : Copies(s.table, v) > Copies(identifier, v)}]
          /\ run' = [run EXCEPT ![p] = IF s.table = identifier THEN @ + 1 ELSE 0]
          /\ IF s.over
             THEN Deliver(p, mint_identifiers(s.result))
             ELSE UNCHANGED <<pc, outcome, returned>>
    /\ UNCHANGED <<identifier_set, op, name, n, before, setsBefore, calls, refused,
                   hashVars, deidVars, sessVars>>

\* One pass of the minting loop in which the database reports "permission
\* denied" for the insert: psycopg2 raises InsufficientPrivilege out of the
\* loop and the API layer turns it into Forbidden.
MintDenied(p) ==
    /\ pc[p] = "minting"
    /\ attempts' = [attempts EXCEPT ![p] = @ + 1]
    /\ refused' = [refused EXCEPT ![p] = TRUE]
    /\ Deliver(p, mint_identifiers(InsufficientPrivilege))
    /\ UNCHANGED <<identifier_set, identifier, op, name, n, minted, failures,
                   inserted, before, setsBefore, calls, run,
                   hashVars, deidVars, sessVars>>

\* The caller has its response; nothing of the call is kept.
Finish(p) ==
    /\ pc[p] = "done"
    /\ pc' = [pc EXCEPT ![p] = "idle"]
    /\ op' = [op EXCEPT ![p] = "none"]
    /\ name' = [name EXCEPT ![p] = "s1"]
    /\ n' = [n EXCEPT ![p] = 0]
    /\ minted' = [minted EXCEPT ![p] = <<>>]
    /\ failures' = [failures EXCEPT ![p] = 0]
    /\ attempts' = [attempts EXCEPT ![p] = 0]
    /\ inserted' = [inserted EXCEPT ![p] = {}]
    /\ outcome' = [outcome EXCEPT ![p] = NoOutcome]
    /\ before' = [before EXCEPT ![p] = [r \in Rows |-> 0]]
    /\ setsBefore' = [setsBefore EXCEPT ![p] = [s \in Names |-> NoRow]]
    /\ run' = [run EXCEPT ![p] = 0]
    /\ refused' = [refused EXCEPT ![p] = FALSE]
    /\ UNCHANGED <<identifier_set, identifier, returned, calls, hashVars, deidVars, sessVars>>

IdleCallers ==
    /\ pc = [p \in Callers |-> "idle"]
    /\ op = [p \in Callers |-> "none"]
    /\ name = [p \in Callers |-> "s1"]
    /\ n = [p \in Callers |-> 0]
    /\ minted = [p \in Callers |-> <<>>]
    /\ failures = [p \in Callers |-> 0]
    /\ outcome = [p \in Callers |-> NoOutcome]
    /\ attempts = [p \in Callers |-> 0]
    /\ inserted = [p \in Callers |-> {}]
    /\ before = [p \in Callers |-> [r \in Rows |-> 0]]
    /\ setsBefore = [p \in Callers |-> [s \in Names |-> NoRow]]
    /\ returned = [v \in LoopValues |-> 0]
    /\ calls = 0
    /\ run = [p \in Callers |-> 0]
    /\ refused = [p \in Callers |-> FALSE]

IdleMint ==
    /\ identifier_set = [s \in Names |-> IF s = "s1" THEN SetRow("first set") ELSE NoRow]
    /\ identifier = [r \in Rows |-> 0]
    /\ IdleCallers

InitMint == IdleMint /\ IdleHash /\ IdleDeid /\ IdleSession

NextMint ==
    \/ \E p \in Callers, nm \in Names, denied \in BOOLEAN : MakeSet(p, nm, denied)
    \/ \E p \in Callers, nm \in Names, want \in 0..MaxN : MintCall(p, nm, want)
    \/ \E p \in Callers, c \in Values : MintAttempt(p, c)
    \/ \E p \in Callers : Finish(p)

SpecMint == InitMint /\ [][NextMint]_vars

\* The set "s1" already holds the identifiers 1..k; "s2" does not exist.
InitLoop ==
    /\ identifier_set = [s \in Names |-> IF s = "s1" THEN SetRow("first set") ELSE NoRow]
    /\ \E k \in 0..(MaxVal + 2) :
           identifier = [r \in Rows |-> IF r.set = "s1" /\ r.value <= k THEN 1 ELSE 0]
    /\ IdleCallers
    /\ IdleHash /\ IdleDeid /\ IdleSession

NextLoop ==
    \/ \E nm \in Names, want \in 0..LoopN : MintCall("c1", nm, want)
    \/ \E c \in LoopValues : MintAttempt("c1", c)
    \/ MintDenied("c1")
    \/ Finish("c1")

SpecLoop == InitLoop /\ [][NextLoop]_vars

NextGenHash ==
    \/ \E env \in MaybeSecrets : SetEnviron(env)
    \/ \E ident \in Identifiers, secret \in MaybeSecrets : CallGenerateHash(ident, secret)

SpecGenHash == InitMint /\ [][NextGenHash]_vars

InitDeid ==
    /\ IdleMint /\ IdleSession
    /\ environ \in {<<>>, <<"">>, <<"abadsecret">>}
    /\ hashArgs = NoArgs
    /\ hashResult = None
    /\ dpc = "start"
    /\ filename \in FileNames
    /\ input_df \in InputFiles
    /\ columns \in ColumnLists
    /\ drop_input_columns \in BOOLEAN
    /\ joined_fields = <<>>
    /\ hashes = <<>>
    /\ output = NoOutput
    /\ error = NoError
    /\ hashCalls = 0

NextDeid == Load \/ Extract \/ HashRow \/ WriteOutput

SpecDeid == InitDeid /\ [][NextDeid]_vars

InitSession == IdleMint /\ IdleHash /\ IdleDeid /\ IdleSession

NextSession ==
    \/ \E act \in Actions : Invoke(act)
    \/ CommandWrites
    \/ CommandReturns
    \/ \E e \in Exceptions : CommandRaises(e)
    \/ \E answer \in BOOLEAN : Finally(answer)
    \/ Exit

SpecSession == InitSession /\ [][NextSession]_vars

----------------------------------------------------------------------------
(* Properties of minting *)

MintDone(p) == pc[p] = "done" /\ op[p] = "mint"
AllTaken(table) == \A v \in Values : \E s \in Names : table[[set |-> s, value |-> v]] > 0

\* C1: a mint(setName, n) call that returns successfully returns exactly n
\* values, pairwise distinct, none of which was in that set before the call.
C1_MintReturnsFresh ==
    \A p \in Callers :
        (MintDone(p) /\ outcome[p].kind = "ok") =>
            LET v == outcome[p].value
            IN /\ Len(v) = n[p]
               /\ \A i, j \in 1..Len(v) : i # j => v[i] # v[j]
               /\ \A i \in 1..Len(v) :
                      before[p][[set |-> name[p], value |-> v[i]]] = 0

C1_Witness ==
    \E p \in Callers :
        /\ MintDone(p) /\ outcome[p].kind = "ok" /\ n[p] >= 1
        /\ \E v \in Values : before[p][[set |-> name[p], value |-> v]] > 0

\* C2: mint on a set name that is not in the store ends at once with
\* NotFound, for every n including 0, and neither table changes.
C2_MintUnknownSet ==
    [][\A p \in Callers :
          (/\ pc[p] = "idle" /\ pc'[p] # "idle" /\ op'[p] = "mint"
           /\ ~identifier_set[name'[p]].present)
          => /\ pc'[p] = "done"
             /\ outcome'[p].kind = "NotFound"
             /\ inserted'[p] = {} /\ attempts'[p] = 0
             /\ identifier' = identifier
             /\ identifier_set' = identifier_set]_vars

C2_Witness ==
    \E p \in Callers :
        /\ MintDone(p) /\ n[p] = 0 /\ ~setsBefore[p][name[p]].present
        /\ outcome[p].kind = "NotFound"

\* C3: when every candidate collides, mint(setName, 1) on an existing set
\* fails with TooManyFailuresError (ServiceUnavailable at the API) after
\* exactly MaxFailures insert attempts, and attempts no further insert.
C3_ExactlyBoundAttempts ==
    \A p \in Callers :
        (/\ op[p] = "mint" /\ pc[p] # "idle" /\ n[p] = 1
         /\ setsBefore[p][name[p]].present /\ AllTaken(before[p]))
        => /\ attempts[p] <= MaxFailures
           /\ pc[p] = "minting" => attempts[p] < MaxFailures
           /\ pc[p] = "done" => /\ outcome[p].kind = "ServiceUnavailable"
                                /\ attempts[p] = MaxFailures
                                /\ inserted[p] = {}

C3_Witness ==
    \E p \in Callers :
        /\ MintDone(p) /\ n[p] = 1 /\ AllTaken(before[p])
        /\ outcome[p].kind = "ServiceUnavailable" /\ attempts[p] = MaxFailures

\* C4: when a mint call fails with TooManyFailuresError after k < n inserts,
\* those k identifiers are still in the store and the error reports k.
C4_PartialMintsPersist ==
    \A p \in Callers :
        (MintDone(p) /\ outcome[p].kind = "ServiceUnavailable") =>
            /\ Cardinality(inserted[p]) < n[p]
            /\ outcome[p].message.minted = Cardinality(inserted[p])
            /\ \A v \in inserted[p] : identifier[[set |-> name[p], value |-> v]] = 1

C4_Witness ==
    \E p \in Callers :
        /\ MintDone(p) /\ outcome[p].kind = "ServiceUnavailable"
        /\ Cardinality(inserted[p]) >= 1

\* C5: under any interleaving of mint calls the store never holds two rows
\* with the same value, no value is returned twice, and every returned value
\* is held by exactly one row.
C5_UniqueUnderConcurrency ==
    \A v \in Values :
        /\ Copies(identifier, v) <= 1
        /\ returned[v] <= 1
        /\ returned[v] = 1 => Copies(identifier, v) = 1
        /\ \A p, q \in Callers : (p # q) => ~(v \in inserted[p] /\ v \in inserted[q])

\* two calls on the same set that overlapped in time and both returned values
C5_Witness ==
    \E p, q \in Callers :
        /\ p # q /\ name[p] = name[q]
        /\ MintDone(p) /\ outcome[p].kind = "ok" /\ Len(outcome[p].value) >= 1
        /\ MintDone(q) /\ outcome[q].kind = "ok" /\ Len(outcome[q].value) >= 1
        /\ before[p] = before[q]

\* C10: make_identifier_set returns True iff no set of that name existed;
\* afterwards the set exists; when it existed already the call returns False
\* and leaves both tables as they were.
C10_MakeSetIdempotent ==
    [][\A p \in Callers :
          (/\ pc[p] = "idle" /\ pc'[p] = "done" /\ op'[p] = "make"
           /\ outcome'[p].kind = "ok")
          => /\ outcome'[p].created = ~identifier_set[name'[p]].present
             /\ identifier_set'[name'[p]].present
             /\ \A s \in Names \ {name'[p]} : identifier_set'[s] = identifier_set[s]
             /\ identifier_set[name'[p]].present => identifier_set' = identifier_set
             /\ identifier' = identifier]_vars

\* a second call for a set that an earlier call created
C10_Witness ==
    \E p \in Callers :
        /\ pc[p] = "done" /\ op[p] = "make" /\ name[p] = "s2"
        /\ outcome[p].kind = "ok" /\ ~outcome[p].created

----------------------------------------------------------------------------
(* Properties of generate_hash *)

\* the secret the call uses, when there is one: the argument, else the
\* configuration value
HasSecret == hashArgs.secret # <<>> \/ hashArgs.environ # <<>>
SecretUsed == IF hashArgs.secret # <<>> THEN hashArgs.secret[1] ELSE hashArgs.environ[1]

\* C6: hash(identifier, secret) fails with an AssertionError whenever the
\* identifier is empty and whenever the secret (given, or taken from
\* ID3C_DEIDENTIFY_SECRET) is empty; no digest is returned in either case.
C6_EmptyArgumentsRejected ==
    (hashArgs.called /\ HasSecret /\ (hashArgs.identifier = "" \/ SecretUsed = ""))
        => hashResult.kind = "AssertionError"

\* an empty secret that came from the configuration value
C6_Witness ==
    /\ hashArgs.called /\ hashArgs.identifier = "foo"
    /\ hashArgs.secret = <<>> /\ hashArgs.environ = <<"">>
    /\ hashResult.kind = "AssertionError"

----------------------------------------------------------------------------
(* Properties of the de-identify command *)

\* v1 + ' ' + v2 + ... + vk for the values of row r in the order of the
\* field list
RECURSIVE SpaceJoined(_, _)
SpaceJoined(r, k) ==
    IF k = 0 THEN ""
    ELSE LET v == input_df[r][IndexOf(FileColumns, columns[k])]
         IN IF k = 1 THEN v ELSE SpaceJoined(r, k - 1) \o " " \o v

FieldsPresent == \A c \in Range(columns) : c \in Range(FileColumns)
HashFailed == dpc = "failed" /\ error.kind \in {"AssertionError", "Exception"}
HashOf(r) == generate_hash(SpaceJoined(r, Len(columns)), <<>>, environ)

\* C7 as stated: every record's outcome is that of hash on the space-joined
\* values, also when the joined value is empty.
C7_RecordHashIsHashOfJoined ==
    FieldsPresent =>
        /\ \A r \in 1..Len(hashes) : hashes[r] = HashOf(r)
        /\ HashFailed => /\ error.kind = HashOf(Len(hashes) + 1).kind
                         /\ error.text = HashOf(Len(hashes) + 1).text

\* C7 as amended: a record whose joined value is not empty gets the outcome
\* of hash on the space-joined values taken in field order; a record whose
\* joined value is empty gets no hash (None) and hash is not called for it.
C7_RecordHashUnlessEmpty ==
    FieldsPresent =>
        /\ \A r \in 1..Len(hashes) :
              IF SpaceJoined(r, Len(columns)) = ""
              THEN hashes[r] = None
              ELSE hashes[r] = HashOf(r)
        /\ HashFailed => /\ SpaceJoined(Len(hashes) + 1, Len(columns)) # ""
                         /\ error.kind = HashOf(Len(hashes) + 1).kind
                         /\ error.text = HashOf(Len(hashes) + 1).text
        /\ hashCalls = Cardinality({r \in 1..Len(hashes) : hashes[r] # None})
                           + IF HashFailed THEN 1 ELSE 0

\* the output holds a digest of "y x" (fields b, a) next to a record without
\* a hash
C7_Witness ==
    /\ dpc = "done" /\ columns = <<"b", "a">> /\ Len(hashes) = 2
    /\ input_df[1] = <<"x", "y">>
    /\ output.hash[1] = Digest(sha256_hexdigest("y x" \o "abadsecret"))
    /\ input_df[2] = <<"", "">>

\* C8: a field list naming a field the input lacks fails with a KeyError
\* naming that field, before any hash is computed or any output written.
C8_MissingFieldFails ==
    (dpc \notin {"idle", "start"} /\ error.kind # "UnsupportedFileExtensionError"
       /\ ~FieldsPresent)
    => /\ dpc \in {"loaded", "failed"}
       /\ dpc = "failed" =>
             /\ error.kind = "KeyError"
             /\ \A c \in Range(columns) : c \notin Range(FileColumns) => c \in error.names
             /\ error.names \subseteq Range(columns)
       /\ hashCalls = 0 /\ hashes = <<>> /\ ~output.written

C8_Witness ==
    /\ dpc = "failed" /\ columns = <<"a", "c">> /\ error.kind = "KeyError"
    /\ error.names = {"c"}

----------------------------------------------------------------------------
(* Properties of with_database_session *)

\* C9: every invocation ends with exactly one of db.commit() and
\* db.rollback(), whether the command returned or raised; it commits iff the
\* action is commit, or prompt and the user confirms; a dry run is rolled
\* back and leaves the database as it was; what the command raised reaches
\* the caller after the commit or rollback.
C9_CommitOrRollbackOnce ==
    /\ spc \in {"command", "finally"} => commits = 0 /\ rollbacks = 0
    /\ spc = "done" =>
          /\ commits + rollbacks = 1
          /\ commits = 1 <=> (action = "commit" \/ (action = "prompt" /\ confirmed))
          /\ action = "rollback" => rollbacks = 1 /\ durable = durableBefore
          /\ rollbacks = 1 => durable = durableBefore /\ pending = durable
          /\ propagated = raised

\* the command raised under --prompt, the user declined, and the rollback
\* discarded what the command had written
C9_Witness ==
    /\ spc = "done" /\ action = "prompt" /\ raised = "Exception" /\ ~confirmed
    /\ rollbacks = 1 /\ propagated = "Exception" /\ invocations = 2 /\ durable > 0

----------------------------------------------------------------------------
(* Properties of the failures of a mint call *)

\* What a pass of the minting loop did, seen from the tables alone.
Attempted(p) == pc[p] = "minting" /\ attempts'[p] = attempts[p] + 1
Collided(p) == Attempted(p) /\ identifier' = identifier /\ ~refused'[p]
Collisions(p) ==
    attempts[p] - Cardinality(inserted[p]) - (IF refused[p] THEN 1 ELSE 0)

\* C11: in a mint call a collision below the bound is the only failure
\* after which the call goes on; an unknown set, a denied insert and the
\* MaxFailures-th consecutive collision each end the call in that very step
\* with NotFound, Forbidden and ServiceUnavailable respectively, and a call
\* ends normally only by inserting the last of its n identifiers.
C11_OnlyCollisionsRetried ==
    [][\A p \in Callers :
          /\ (/\ pc[p] = "idle" /\ pc'[p] # "idle" /\ op'[p] = "mint"
              /\ ~identifier_set[name'[p]].present)
             => pc'[p] = "done" /\ outcome'[p].kind = "NotFound"
          /\ Attempted(p) =>
                /\ (Collided(p) /\ run'[p] < MaxFailures)
                       => pc'[p] = "minting" /\ outcome'[p] = NoOutcome
                /\ (Collided(p) /\ run'[p] >= MaxFailures)
                       => pc'[p] = "done" /\ outcome'[p].kind = "ServiceUnavailable"
                /\ refused'[p]
                       => pc'[p] = "done" /\ outcome'[p].kind = "Forbidden"
                /\ (pc'[p] = "minting" /\ ~Collided(p))
                       => identifier' # identifier /\ Len(minted'[p]) < n[p]
                /\ (pc'[p] = "done" /\ outcome'[p].kind = "ok")
                       => /\ identifier' # identifier
                          /\ Len(outcome'[p].value) = n[p]
          /\ (pc'[p] = "done" /\ op'[p] = "mint")
                => outcome'[p].kind \in
                       {"ok", "NotFound", "ServiceUnavailable", "Forbidden"}]_vars

\* a call that collided, was retried, and was then denied the insert
C11_Witness ==
    \E p \in Callers :
        /\ MintDone(p) /\ refused[p] /\ outcome[p].kind = "Forbidden"
        /\ Collisions(p) >= 1 /\ inserted[p] # {}

\* C12: the failure counter of a mint call equals the number of collisions
\* since the call's last insert (an insert resets it to zero); the call ends
\* with TooManyFailuresError (ServiceUnavailable at the API) iff MaxFailures
\* collisions came in a row, so a call that is not denied and never collides
\* MaxFailures times in a row succeeds however many collisions it had in all;
\* every pass of the loop is one insert attempt, a call makes at most
\* n * MaxFailures of them, and one that has made that many is over.
C12_ConsecutiveFailureBound ==
    /\ [](\A p \in Callers :
             (op[p] = "mint" /\ pc[p] # "idle") =>
                /\ failures[p] = run[p]
                /\ pc[p] = "minting" => run[p] < MaxFailures
                /\ pc[p] = "done" =>
                      /\ outcome[p].kind = "ServiceUnavailable"
                             <=> run[p] >= MaxFailures
                      /\ (/\ run[p] < MaxFailures /\ ~refused[p]
                          /\ setsBefore[p][name[p]].present)
                             => outcome[p].kind = "ok"
                /\ attempts[p] <= n[p] * MaxFailures
                /\ pc[p] = "minting" => attempts[p] < n[p] * MaxFailures)
    /\ [][\A p \in Callers :
              (pc[p] = "minting" /\ <<pc[p], minted[p], failures[p], identifier>>
                                      # <<pc'[p], minted'[p], failures'[p], identifier'>>)
                 => attempts'[p] = attempts[p] + 1]_vars

\* a call that collided more than MaxFailures times in all and succeeded
C12_Witness ==
    \E p \in Callers :
        /\ MintDone(p) /\ outcome[p].kind = "ok"
        /\ Collisions(p) > MaxFailures

----------------------------------------------------------------------------
(* Properties of the tables *)

\* C13: whatever the callers do, successfully or not, no step takes a row
\* out of warehouse.identifier (a row whose set name or value changed would
\* be gone under its old set name and value) or out of
\* warehouse.identifier_set, and in every state each row of
\* warehouse.identifier names a set that is in warehouse.identifier_set.
C13_RowsOnlyGrow ==
    /\ [](\A r \in Rows : identifier[r] > 0 => identifier_set[r.set].present)
    /\ [][/\ \A r \in Rows : identifier'[r] >= identifier[r]
          /\ \A s \in Names : identifier_set[s].present => identifier_set'[s].present]_vars

\* a row committed before a call that failed is still there after it
C13_Witness ==
    \E p \in Callers, r \in Rows :
        /\ MintDone(p) /\ outcome[p].kind = "ServiceUnavailable" /\ attempts[p] > 0
        /\ before[p][r] > 0 /\ identifier[r] > 0

====
